---- MODULE Spec2Model ----
(***************************************************************************)
(* SRP-6a login server (src/server.js): the BigInt primitives, the         *)
(* per-connection handshake handler and the asynchronous user lookup.      *)
(*                                                                         *)
(* Strings are sequences of character codes (ASCII), so that the           *)
(* hexadecimal parsing, the hexadecimal/decimal rendering and the          *)
(* colon-joined hash input are computed as the code computes them.         *)
(* The 1024-bit prime N and the 256-bit digest are scaled down to small    *)
(* values; every formula below is about arithmetic modulo N and equality   *)
(* of digests, neither of which depends on the width.                      *)
(***************************************************************************)
EXTENDS Integers, Sequences, FiniteSets, TLC

(***************************************************************************)
(* Bounds of the model.                                                    *)
(***************************************************************************)
\* frames an arbitrary peer sends on one connection
MaxInbound == 3
\* largest private exponent x = H(s, p) of a registered user
MaxX == 3
\* largest ephemeral secret a of the reference client
MaxA == 4

(***************************************************************************)
(* Characters and strings.                                                 *)
(***************************************************************************)
Ch0 == 48
ChA == 97
ChColon == 58

\* the value of a hexadecimal digit, -1 for any other character
HexVal(c) ==
    IF c >= Ch0 /\ c <= Ch0 + 9 THEN c - Ch0
    ELSE IF c >= ChA /\ c <= ChA + 5 THEN c - ChA + 10
    ELSE -1

\* the character of a digit 0..15
DigitCh(d) == IF d < 10 THEN Ch0 + d ELSE ChA + (d - 10)

SyntaxError == -1

RECURSIVE ParseDigits(_, _)
ParseDigits(str, acc) ==
    IF str = <<>> THEN acc
    ELSE IF HexVal(Head(str)) < 0 THEN SyntaxError
    ELSE ParseDigits(Tail(str), acc * 16 + HexVal(Head(str)))

\* BigInt(`0x${str}`): the value of a hexadecimal string; a SyntaxError is
\* thrown for the empty string and for any character that is no hex digit
BigIntHex(str) == IF str = <<>> THEN SyntaxError ELSE ParseDigits(str, 0)

RECURSIVE Render(_, _)
Render(n, base) ==
    IF n < base THEN <<DigitCh(n)>>
    ELSE Append(Render(n \div base, base), DigitCh(n % base))

\* n.toString(16)
ToHex(n) == Render(n, 16)
\* String(n), the rendering Array.prototype.join gives a BigInt
ToStr(n) == Render(n, 10)

RECURSIVE Join(_)
\* args.join(":")
Join(args) ==
    IF args = <<>> THEN <<>>
    ELSE IF Len(args) = 1 THEN args[1]
    ELSE args[1] \o <<ChColon>> \o Join(Tail(args))

(***************************************************************************)
(* hash, bigIntExponentiation and the public parameters.                   *)
(***************************************************************************)
\* the range of the digest (2^256 in the code)
HashMod == 8

RECURSIVE Digest(_, _)
\* a deterministic, order-sensitive digest of a text, standing for SHA-256
Digest(text, h) ==
    IF text = <<>> THEN h
    ELSE Digest(Tail(text), (h * 5 + Head(text) + 1) % HashMod)

\* hash(...args): args are the strings the arguments render to
hash(args) == Digest(Join(args), 7)

\* PowEntry with result starting at the base instead of 1
PowEntryFromBase(num, power, modulus) ==
    [result |-> num % modulus, num |-> num % modulus, power |-> power,
     modulus |-> modulus]

\* the locals of bigIntExponentiation on entry to its loop (lines 55-56)
PowEntry(num, power, modulus) ==
    [result |-> 1, num |-> num % modulus, power |-> power, modulus |-> modulus]

\* PowIter without the squaring of num
PowIterNoSquare(st) ==
    [result |-> IF st.power % 2 = 1
                THEN (st.result * st.num) % st.modulus
                ELSE st.result,
     num |-> st.num,
     power |-> st.power \div 2,
     modulus |-> st.modulus]

\* one iteration of the loop (lines 58-62)
PowIter(st) ==
    [result |-> IF st.power % 2 = 1
                THEN (st.result * st.num) % st.modulus
                ELSE st.result,
     num |-> (st.num * st.num) % st.modulus,
     power |-> st.power \div 2,
     modulus |-> st.modulus]

RECURSIVE PowLoop(_)
\* while (power > 0n) { ... } return result
PowLoop(st) == IF st.power > 0 THEN PowLoop(PowIter(st)) ELSE st.result

bigIntExponentiation(num, power, modulus) ==
    PowLoop(PowEntry(num, power, modulus))

RECURSIVE RefPow(_, _, _)
\* the reference definition: base^exponent mod modulus
RefPow(base, exponent, modulus) ==
    IF exponent = 0 THEN 1 % modulus
    ELSE (base * RefPow(base, exponent - 1, modulus)) % modulus

RECURSIVE Xor(_, _)
\* the BigInt operator ^ on non-negative values
Xor(a, b) ==
    IF a = 0 THEN b
    ELSE IF b = 0 THEN a
    ELSE 2 * Xor(a \div 2, b \div 2) + (((a % 2) + (b % 2)) % 2)

\* a safe prime (11 = 2*5 + 1) of which g is a generator
N == 11
g == 2
k == hash(<<ToStr(N), ToStr(g)>>)

\* hash(N) ^ hash(g), the first argument of the proof hash
hashNxorg == Xor(hash(<<ToStr(N)>>), hash(<<ToStr(g)>>))

statusOk == 200
statusUnauthorized == 401

(***************************************************************************)
(* State.                                                                  *)
(***************************************************************************)
VARIABLES
    proc,      \* "running", or "crashed" once an exception ended the process
    db,        \* the users table: identity -> [s, v], both hexadecimal strings
    sess,      \* per connection: the closure variables _I _A _B _b _s _v _u _K
    ws,        \* per connection: the socket (readyState, frames sent, close frame)
    pending,   \* per connection: identity -> number of db.all lookups in flight
    nIn,       \* per connection: serial -> inbound frames handled so far
    log,       \* the last console.log line
    client,    \* the reference client of the end-to-end run
    call       \* an activation of bigIntExponentiation run step by step

vars == <<proc, db, sess, ws, pending, nIn, log, client, call>>

Alice == <<97, 108>>
Bob == <<98, 111>>
Identities == {Alice, Bob}
Salt == <<ChA + 2, Ch0 + 3>>

Conns == {1}

\* the serials of the frames a peer sends: the four phases and another one
Serials == {2, 3, 5, 7, 4}

\* the closure variables of a new connection (lines 139-151); _s is kept as
\* the string it renders to: "" at first, String(BigInt) once assigned
InitSession ==
    [_I |-> <<>>, _A |-> 0, _B |-> 0, _b |-> 0, _s |-> <<>>, _v |-> 0,
     _u |-> 0, _K |-> 0]

NoClose == [code |-> 0, status |-> 0]
InitSocket == [readyState |-> "OPEN", sent |-> <<>>, closeFrame |-> NoClose]

Msg(serial, data) == [serial |-> serial, data |-> data]

\* ws.send(frame): the frame goes out on an OPEN socket only
Send(w, frame) ==
    IF w.readyState = "OPEN" THEN [w EXCEPT !.sent = Append(@, frame)] ELSE w

\* ws.close(code, reason): starts the closing handshake of an OPEN socket
Close(w, code, status) ==
    IF w.readyState = "OPEN"
    THEN [w EXCEPT !.readyState = "CLOSING",
                   !.closeFrame = [code |-> code, status |-> status]]
    ELSE w

Line(op, c, args) == [op |-> op, c |-> c, args |-> args]

NewClient ==
    [state |-> "new", x |-> 0, a |-> 0, A |-> 0, B |-> 0, s |-> <<>>,
     u |-> 0, K |-> 0]

NoCall == [pc |-> "none", args |-> <<0, 0, 1>>, st |-> PowEntry(0, 0, 1)]

Init ==
    /\ proc = "running"
    /\ db = <<>>
    /\ sess = <<>>
    /\ ws = <<>>
    /\ pending = <<>>
    /\ nIn = <<>>
    /\ log = [op |-> "public", c |-> 0, args |-> <<N, g, k>>]
    /\ client = NewClient
    /\ call = NoCall

(***************************************************************************)
(* app.post("/register"): the insert of a new user.  A request with an      *)
(* empty field is answered 400 and one for a known identity fails on the   *)
(* unique column; neither changes the table.                               *)
(***************************************************************************)
Insert(I, s, v) ==
    /\ proc = "running"
    /\ I # <<>> /\ s # <<>> /\ v # <<>>
    /\ I \notin DOMAIN db
    /\ db' = db @@ (I :> [s |-> s, v |-> v])
    /\ log' = Line("register", 0, <<I, s, v>>)
    /\ UNCHANGED <<proc, sess, ws, pending, nIn>>

Register(I, s, v) == Insert(I, s, v) /\ UNCHANGED <<client, call>>

(***************************************************************************)
(* wsServer.on("connection"): the closure variables and the first frame.   *)
(***************************************************************************)
\* Connect without the ws.send of line 153
ConnectNoGreeting(c) ==
    /\ proc = "running"
    /\ c \notin DOMAIN sess
    /\ sess' = sess @@ (c :> InitSession)
    /\ ws' = ws @@ (c :> InitSocket)
    /\ pending' = pending @@ (c :> [I \in Identities |-> 0])
    /\ nIn' = nIn @@ (c :> [n \in Serials |-> 0])
    /\ log' = Line("login", c, <<>>)
    /\ UNCHANGED <<proc, db, client, call>>

Connect(c) ==
    /\ proc = "running"
    /\ c \notin DOMAIN sess
    /\ sess' = sess @@ (c :> InitSession)
    /\ ws' = ws @@ (c :> Send(InitSocket, Msg(1, <<>>)))
    /\ pending' = pending @@ (c :> [I \in Identities |-> 0])
    /\ nIn' = nIn @@ (c :> [n \in Serials |-> 0])
    /\ log' = Line("login", c, <<>>)
    /\ UNCHANGED <<proc, db, client, call>>

(***************************************************************************)
(* ws.on("message"): one inbound frame m = [serial, hasData, I, A, C_M].   *)
(* The handler is an async function: an exception thrown in it rejects its *)
(* promise, which nothing handles; the runtime then either only warns or   *)
(* ends the process (crash), depending on its version.                     *)
(***************************************************************************)
Rejected(c, crash) ==
    /\ log' = Line("unhandledRejection", c, <<>>)
    /\ proc' = IF crash THEN "crashed" ELSE "running"

\* IsZeroKey catching the literal zero only
IsLiteralZero(A) == A = 0

\* the abort condition of line 162
IsZeroKey(A) == A % N = 0

\* case 2 (lines 158-189)
Case2(c, m, crash) ==
    IF ~m.hasData
    THEN /\ Rejected(c, crash)
         /\ UNCHANGED <<sess, ws, pending>>
    ELSE IF BigIntHex(m.A) = SyntaxError
    THEN /\ sess' = [sess EXCEPT ![c]._I = m.I]
         /\ Rejected(c, crash)
         /\ UNCHANGED <<ws, pending>>
    ELSE /\ sess' = [sess EXCEPT ![c]._I = m.I, ![c]._A = BigIntHex(m.A)]
         /\ log' = Line("case2", c, <<m.I, BigIntHex(m.A)>>)
         /\ IF IsZeroKey(BigIntHex(m.A))
            THEN /\ ws' = [ws EXCEPT ![c] = Close(@, 1005, 0)]
                 /\ UNCHANGED pending
            ELSE /\ pending' = [pending EXCEPT ![c][m.I] = @ + 1]
                 /\ UNCHANGED ws
         /\ UNCHANGED proc

\* Case3 with the scrambling parameter in a variable shared by all sessions
Case3Shared(c, m) ==
    LET u == hash(<<ToStr(sess[c]._A), ToStr(sess[c]._B)>>) IN
    /\ sess' = [d \in DOMAIN sess |-> [sess[d] EXCEPT !._u = u]]
    /\ log' = Line("case3", c, <<u>>)
    /\ ws' = [ws EXCEPT ![c] = Send(@, Msg(m.serial + 1, <<>>))]
    /\ UNCHANGED <<proc, pending>>

\* case 3 (lines 190-196)
Case3(c, m) ==
    LET u == hash(<<ToStr(sess[c]._A), ToStr(sess[c]._B)>>) IN
    /\ sess' = [sess EXCEPT ![c]._u = u]
    /\ log' = Line("case3", c, <<u>>)
    /\ ws' = [ws EXCEPT ![c] = Send(@, Msg(m.serial + 1, <<>>))]
    /\ UNCHANGED <<proc, pending>>

\* SessionKey without the factor v^u
SessionKeyNoVerifier(s) == bigIntExponentiation(s._A, s._b, N)

\* the session key S of case 5 (line 200)
SessionKey(s) ==
    bigIntExponentiation(s._A * bigIntExponentiation(s._v, s._u, N), s._b, N)

\* case 5 (lines 197-205)
Case5(c, m) ==
    LET S == SessionKey(sess[c])
        K == hash(<<ToStr(S)>>)
    IN
    /\ sess' = [sess EXCEPT ![c]._K = K]
    /\ log' = Line("case5", c, <<S, K>>)
    /\ ws' = [ws EXCEPT ![c] = Send(@, Msg(m.serial + 1, <<>>))]
    /\ UNCHANGED <<proc, pending>>

\* S_M of case 7 (lines 210-213)
ServerProof(s) ==
    hash(<<ToStr(hashNxorg), ToStr(hash(<<s._I>>)), s._s, ToStr(s._A),
           ToStr(s._B), ToStr(s._K)>>)

\* Verdict comparing the low two bits only
VerdictLowBits(S_M, C_M) ==
    IF S_M % 4 = C_M % 4 THEN statusOk ELSE statusUnauthorized

\* the status of the close frame (lines 217-219)
Verdict(S_M, C_M) == IF S_M = C_M THEN statusOk ELSE statusUnauthorized

\* case 7 (lines 206-221)
Case7(c, m, crash) ==
    IF ~m.hasData \/ BigIntHex(m.C_M) = SyntaxError
    THEN /\ Rejected(c, crash)
         /\ UNCHANGED <<sess, ws, pending>>
    ELSE LET S_M == ServerProof(sess[c])
             C_M == BigIntHex(m.C_M)
         IN
         /\ log' = Line("case7", c, <<C_M, S_M>>)
         /\ ws' = [ws EXCEPT ![c] = Close(@, 1000, Verdict(S_M, C_M))]
         /\ UNCHANGED <<proc, sess, pending>>

\* default (lines 222-223): data.error is read, which throws without data
DefaultCase(c, m, crash) ==
    /\ IF ~m.hasData
       THEN Rejected(c, crash)
       ELSE /\ log' = Line("unexpected", c, <<>>)
            /\ UNCHANGED proc
    /\ UNCHANGED <<sess, ws, pending>>

\* Dispatch taking any serial above 3 that is no case label for case 5
DispatchLoose(serial) ==
    IF serial \in {2, 3, 7} THEN serial ELSE IF serial > 3 THEN 5 ELSE 0

\* the switch on the frame's serial (line 157)
Dispatch(serial) ==
    IF serial \in {2, 3, 5, 7} THEN serial ELSE 0

\* frames reach the handler until the closing handshake has completed
Handle(c, m, crash) ==
    /\ proc = "running"
    /\ c \in DOMAIN sess
    /\ ws[c].readyState # "CLOSED"
    /\ nIn' = [nIn EXCEPT ![c][m.serial] = @ + 1]
    /\ CASE Dispatch(m.serial) = 2 -> Case2(c, m, crash)
         [] Dispatch(m.serial) = 3 -> Case3(c, m)
         [] Dispatch(m.serial) = 5 -> Case5(c, m)
         [] Dispatch(m.serial) = 7 -> Case7(c, m, crash)
         [] OTHER -> DefaultCase(c, m, crash)
    /\ UNCHANGED db

RECURSIVE Sum(_, _)
Sum(f, S) ==
    IF S = {} THEN 0
    ELSE LET e == CHOOSE e \in S : TRUE IN f[e] + Sum(f, S \ {e})

Handled(c) == Sum(nIn[c], Serials)

\* a frame of an arbitrary peer
OnMessage(c, m, crash) ==
    /\ c \in DOMAIN nIn
    /\ Handled(c) < MaxInbound
    /\ Handle(c, m, crash)
    /\ UNCHANGED <<client, call>>

(***************************************************************************)
(* The callback of db.all (lines 167-188) for a lookup of identity I made  *)
(* by connection c; error is the store's failure, random the value of      *)
(* generateSalt(32).  It runs whatever the socket's state, and an          *)
(* exception thrown in it is uncaught and ends the process.                *)
(***************************************************************************)
Rows(I) == IF I \in DOMAIN db THEN <<db[I]>> ELSE <<>>

ErrorText == <<101, 114, 114>>

\* ServerPublic without the reduction modulo N
ServerPublicUnreduced(v, b) == k * v + bigIntExponentiation(g, b, N)

\* b of line 180, random being the value of generateSalt(32)
ServerPrivate(random) == random % N

\* B of line 182
ServerPublic(v, b) == (k * v + bigIntExponentiation(g, b, N)) % N

\* LookupError without the ws.close() of line 174
LookupErrorNoClose(c, I) ==
    /\ log' = Line("lookupError", c, <<I>>)
    /\ ws' = [ws EXCEPT ![c] = Send(@, Msg(153, <<ErrorText>>))]
    /\ UNCHANGED <<proc, sess>>

LookupError(c, I) ==
    /\ log' = Line("lookupError", c, <<I>>)
    /\ ws' = [ws EXCEPT ![c] = Close(Send(@, Msg(153, <<ErrorText>>)), 1005, 0)]
    /\ UNCHANGED <<proc, sess>>

LookupRows(c, rows, random) ==
    IF rows = <<>> \/ BigIntHex(rows[1].s) = SyntaxError
    THEN /\ proc' = "crashed"
         /\ log' = Line("uncaughtException", c, <<>>)
         /\ UNCHANGED <<sess, ws>>
    ELSE IF BigIntHex(rows[1].v) = SyntaxError
    THEN /\ proc' = "crashed"
         /\ log' = Line("uncaughtException", c, <<>>)
         /\ sess' = [sess EXCEPT ![c]._s = ToStr(BigIntHex(rows[1].s))]
         /\ UNCHANGED ws
    ELSE LET s == rows[1].s
             v == BigIntHex(rows[1].v)
             b == ServerPrivate(random)
             B == ServerPublic(v, b)
         IN
         /\ sess' = [sess EXCEPT ![c]._s = ToStr(BigIntHex(s)), ![c]._v = v,
                                 ![c]._b = b, ![c]._B = B]
         /\ ws' = [ws EXCEPT ![c] = Send(@, Msg(2 + 1, <<s, ToHex(B)>>))]
         /\ log' = Line("lookup", c, <<b, B>>)
         /\ UNCHANGED proc

LookupCallback(c, I, error, random) ==
    /\ proc = "running"
    /\ c \in DOMAIN sess
    /\ pending[c][I] > 0
    /\ pending' = [pending EXCEPT ![c][I] = @ - 1]
    /\ IF error THEN LookupError(c, I) ELSE LookupRows(c, Rows(I), random)
    /\ UNCHANGED <<db, nIn, client, call>>

(***************************************************************************)
(* The closing handshake completes, or the peer goes away: the socket is   *)
(* CLOSED and ws.on("close") writes its line (lines 226-228).              *)
(***************************************************************************)
OnClose(c) ==
    /\ proc = "running"
    /\ c \in DOMAIN sess
    /\ ws[c].readyState # "CLOSED"
    /\ ws' = [ws EXCEPT ![c].readyState = "CLOSED"]
    /\ log' = Line("close", c, <<>>)
    /\ UNCHANGED <<proc, db, sess, pending, nIn, client, call>>

(***************************************************************************)
(* The socket fails: ws.on("error") writes its line (lines 229-231) and     *)
(* the socket, which sends nothing any more, goes on to close.             *)
(***************************************************************************)
OnError(c) ==
    /\ proc = "running"
    /\ c \in DOMAIN sess
    /\ ws[c].readyState = "OPEN"
    /\ ws' = [ws EXCEPT ![c].readyState = "CLOSING"]
    /\ log' = Line("websocket error", c, <<>>)
    /\ UNCHANGED <<proc, db, sess, pending, nIn, client, call>>

(***************************************************************************)
(* The frames a peer may send.                                             *)
(***************************************************************************)
Frame(serial, hasData, I, A, C_M) ==
    [serial |-> serial, hasData |-> hasData, I |-> I, A |-> A, C_M |-> C_M]

\* clientPublic values: zero, multiples of N, valid ones, and no hex string
AInputs == {ToHex(0), ToHex(2 * N), ToHex(2), ToHex(N + 4), <<>>}

\* clientProof values: every digest, one beyond the digest range, no hex string
ProofInputs == {ToHex(h) : h \in 0..HashMod} \cup {<<>>}

Frames ==
    {Frame(2, TRUE, Alice, A, <<>>) : A \in AInputs}
    \cup {Frame(2, TRUE, Bob, ToHex(2), <<>>)}
    \cup {Frame(7, TRUE, <<>>, <<>>, M) : M \in ProofInputs}
    \cup {Frame(n, FALSE, <<>>, <<>>, <<>>) : n \in Serials}
    \cup {Frame(4, TRUE, <<>>, <<>>, <<>>)}

\* what a peer may register: the verifier g^3 mod N
Registrations ==
    {<<Alice, Salt, ToHex(8)>>}

\* values of generateSalt(32)
ServerSecrets == {3, 2 * N - 1}

Next ==
    \/ \E r \in Registrations : Register(r[1], r[2], r[3])
    \/ \E c \in Conns : Connect(c)
    \/ \E c \in Conns, m \in Frames, crash \in BOOLEAN : OnMessage(c, m, crash)
    \/ \E c \in Conns, I \in Identities, error \in BOOLEAN,
          random \in ServerSecrets :
             LookupCallback(c, I, error, random)
    \/ \E c \in Conns : OnClose(c)
    \/ \E c \in Conns : OnError(c)

Spec == Init /\ [][Next]_vars

(***************************************************************************)
(* The server with peers that send nothing on a connection that is no      *)
(* longer open: every frame is handled on an open connection, so a lookup  *)
(* in flight on a closed one was started before the closure.               *)
(***************************************************************************)
OnMessageOpen(c, m, crash) ==
    /\ c \in DOMAIN ws
    /\ ws[c].readyState = "OPEN"
    /\ OnMessage(c, m, crash)

NextOpen ==
    \/ \E r \in Registrations : Register(r[1], r[2], r[3])
    \/ \E c \in Conns : Connect(c)
    \/ \E c \in Conns, m \in Frames, crash \in BOOLEAN :
          OnMessageOpen(c, m, crash)
    \/ \E c \in Conns, I \in Identities, error \in BOOLEAN,
          random \in ServerSecrets :
             LookupCallback(c, I, error, random)
    \/ \E c \in Conns : OnClose(c)
    \/ \E c \in Conns : OnError(c)

SpecOpen == Init /\ [][NextOpen]_vars

(***************************************************************************)
(* Two concurrent connections, their handlers interleaved in any order.    *)
(***************************************************************************)
\* frames handled on the two connections together
MaxInterleaved == 3

Sessions == {1, 2}

FramesTwo ==
    {Frame(2, TRUE, Alice, A, <<>>) : A \in {ToHex(2), ToHex(N + 4)}}
    \cup {Frame(n, FALSE, <<>>, <<>>, <<>>) : n \in {3, 5}}
    \cup {Frame(7, TRUE, <<>>, <<>>, ToHex(1))}

HandledAll == Sum([c \in Sessions |-> IF c \in DOMAIN nIn THEN Handled(c) ELSE 0],
                  Sessions)

OnMessageTwo(c, m) ==
    /\ HandledAll < MaxInterleaved
    /\ Handle(c, m, FALSE)
    /\ UNCHANGED <<client, call>>

NextTwo ==
    \/ \E r \in Registrations : Register(r[1], r[2], r[3])
    \/ \E c \in Sessions : Connect(c)
    \/ \E c \in Sessions, m \in FramesTwo : OnMessageTwo(c, m)
    \/ \E c \in Sessions, random \in ServerSecrets :
          LookupCallback(c, Alice, FALSE, random)
    \/ \E c \in Sessions : OnClose(c)

SpecTwo == Init /\ [][NextTwo]_vars

(***************************************************************************)
(* The login of one connection up to the response of phase 2, for every    *)
(* stored verifier, two salts and every residue of the random value.       *)
(***************************************************************************)
\* a salt whose hexadecimal value renders to another string
SaltZero == <<Ch0, ChA + 2>>

\* the rows a peer may register: the verifier may exceed N
Rows2 == {<<Alice, s, ToHex(v)>> : s \in {Salt, SaltZero}, v \in 0..(2 * N - 1)}

\* the first frame of a connection, of phase 2
OnLogin(c, A) ==
    /\ c \in DOMAIN nIn
    /\ Handled(c) = 0
    /\ Handle(c, Frame(2, TRUE, Alice, A, <<>>), FALSE)
    /\ UNCHANGED <<client, call>>

NextLogin ==
    \/ \E r \in Rows2 : Register(r[1], r[2], r[3])
    \/ \E c \in Conns : Connect(c)
    \/ \E c \in Conns, A \in {ToHex(2), ToHex(N + 4)} : OnLogin(c, A)
    \/ \E c \in Conns, random \in 0..(2 * N - 1) :
          LookupCallback(c, Alice, FALSE, random)

SpecLogin == Init /\ [][NextLogin]_vars

(***************************************************************************)
(* The reference client of the end-to-end run (SRP-6a): it registers the   *)
(* verifier g^x mod N, then answers each frame of the server with the next *)
(* phase, deriving u, S, K and its proof M on its own side with the        *)
(* reference exponentiation.                                               *)
(***************************************************************************)
LastFrame(c) == ws[c].sent[Len(ws[c].sent)]

Awaits(c, state, serial) ==
    /\ client.state = state
    /\ c \in DOMAIN ws
    /\ ws[c].sent # <<>>
    /\ LastFrame(c).serial = serial

ClientRegister(x) ==
    /\ client.state = "new"
    /\ Insert(Alice, Salt, ToHex(RefPow(g, x, N)))
    /\ client' = [client EXCEPT !.state = "registered", !.x = x]
    /\ UNCHANGED call

Client2(c, a) ==
    /\ Awaits(c, "registered", 1)
    /\ RefPow(g, a, N) % N # 0
    /\ Handle(c, Frame(2, TRUE, Alice, ToHex(RefPow(g, a, N)), <<>>), FALSE)
    /\ client' = [client EXCEPT !.state = "sent2", !.a = a,
                                !.A = RefPow(g, a, N)]
    /\ UNCHANGED call

Client3(c) ==
    /\ Awaits(c, "sent2", 3)
    /\ Handle(c, Frame(3, FALSE, <<>>, <<>>, <<>>), FALSE)
    /\ LET s == LastFrame(c).data[1]
           B == BigIntHex(LastFrame(c).data[2])
       IN client' = [client EXCEPT !.state = "sent3", !.s = s, !.B = B,
                         !.u = hash(<<ToStr(client.A), ToStr(B)>>)]
    /\ UNCHANGED call

\* S = (B - k * g^x)^(a + u * x) mod N
ClientKey(cl) ==
    RefPow((cl.B - k * RefPow(g, cl.x, N)) % N, cl.a + cl.u * cl.x, N)

Client5(c) ==
    /\ Awaits(c, "sent3", 4)
    /\ Handle(c, Frame(5, FALSE, <<>>, <<>>, <<>>), FALSE)
    /\ client' = [client EXCEPT !.state = "sent5",
                                !.K = hash(<<ToStr(ClientKey(client))>>)]
    /\ UNCHANGED call

ClientProof(cl) ==
    hash(<<ToStr(hashNxorg), ToStr(hash(<<Alice>>)), ToStr(BigIntHex(cl.s)),
           ToStr(cl.A), ToStr(cl.B), ToStr(cl.K)>>)

Client7(c) ==
    /\ Awaits(c, "sent5", 6)
    /\ Handle(c, Frame(7, TRUE, <<>>, <<>>, ToHex(ClientProof(client))), FALSE)
    /\ client' = [client EXCEPT !.state = "sent7"]
    /\ UNCHANGED call

\* the closing handshake started by the server completes
ClientClose(c) ==
    /\ c \in DOMAIN ws
    /\ ws[c].readyState = "CLOSING"
    /\ OnClose(c)

NextHonest ==
    \/ \E x \in 0..MaxX : ClientRegister(x)
    \/ \E c \in Conns : Connect(c)
    \/ \E c \in Conns, a \in 0..MaxA : Client2(c, a)
    \/ \E c \in Conns, b \in 0..(N - 1) : LookupCallback(c, Alice, FALSE, b)
    \/ \E c \in Conns : Client3(c)
    \/ \E c \in Conns : Client5(c)
    \/ \E c \in Conns : Client7(c)
    \/ \E c \in Conns : ClientClose(c)

SpecHonest == Init /\ [][NextHonest]_vars

(***************************************************************************)
(* bigIntExponentiation run one loop iteration at a time, on arguments     *)
(* drawn from bounded sets.                                                *)
(***************************************************************************)
MaxBase == 6
MaxPower == 9
MaxModulus == 7

PowCall(num, power, modulus) ==
    /\ call.pc = "none"
    /\ call' = [pc |-> "loop", args |-> <<num, power, modulus>>,
                st |-> PowEntry(num, power, modulus)]
    /\ UNCHANGED <<proc, db, sess, ws, pending, nIn, log, client>>

PowStep ==
    /\ call.pc = "loop"
    /\ call.st.power > 0
    /\ call' = [call EXCEPT !.st = PowIter(@)]
    /\ UNCHANGED <<proc, db, sess, ws, pending, nIn, log, client>>

PowReturn ==
    /\ call.pc = "loop"
    /\ ~(call.st.power > 0)
    /\ call' = [call EXCEPT !.pc = "returned"]
    /\ UNCHANGED <<proc, db, sess, ws, pending, nIn, log, client>>

NextPow ==
    \/ \E num \in 0..MaxBase, power \in 0..MaxPower, modulus \in 1..MaxModulus :
          PowCall(num, power, modulus)
    \/ PowStep
    \/ PowReturn

SpecPow == Init /\ [][NextPow]_vars

\* the loop is sequential code: it keeps running until it returns
SpecPowFair == SpecPow /\ WF_vars(PowStep) /\ WF_vars(PowReturn)

(***************************************************************************)
(* Properties of bigIntExponentiation, under SpecPow and SpecPowFair.      *)
(***************************************************************************)
Returned == call.pc = "returned"
ArgBase == call.args[1]
ArgPower == call.args[2]
ArgModulus == call.args[3]

\* C6: a call with exponent 0 and a modulus greater than 1 returns 1,
\* whatever the base.
C6_ZeroExponentIsOne ==
    (Returned /\ ArgPower = 0 /\ ArgModulus > 1) => call.st.result = 1

C6_Witness == Returned /\ ArgPower = 0 /\ ArgModulus > 1 /\ ArgBase > 1

\* C7: a call with modulus 1 returns 0 for every exponent, 0 included.
C7_ModulusOneIsZero == (Returned /\ ArgModulus = 1) => call.st.result = 0

\* C8: with a modulus of at least 2 every call returns, and what it returns
\* is base^exponent mod modulus, a value of 0..modulus-1.
C8_ModPowCorrect ==
    /\ [](Returned /\ ArgModulus >= 2
            => /\ call.st.result = RefPow(ArgBase, ArgPower, ArgModulus)
               /\ call.st.result \in 0..(ArgModulus - 1))
    /\ (call.pc = "loop" ~> Returned)

C8_Witness ==
    /\ Returned /\ ArgModulus >= 3 /\ ArgPower >= 5 /\ ArgBase >= 2
    /\ call.st.result > 1

(***************************************************************************)
(* Properties of the handshake.                                            *)
(***************************************************************************)
Success(c) == ws[c].closeFrame = [code |-> 1000, status |-> statusOk]

\* C1: in a run of the reference client against a registered verifier
\* g^x mod N, for every a, b and x: each phase the client sends is answered
\* (phase 2 once its lookup has completed), so the run is never stuck; once
\* both sides have derived the session-key hash the two hashes are equal;
\* and the verdict of phase 7 is the success status.
C1_EndToEndAgreement ==
    \A c \in DOMAIN ws :
        /\ client.state = "sent2"
              => pending[c][Alice] > 0 \/ LastFrame(c).serial = 3
        /\ client.state = "sent3" => LastFrame(c).serial = 4
        /\ client.state = "sent5" => LastFrame(c).serial = 6
        /\ client.state \in {"sent5", "sent7"} => sess[c]._K = client.K
        /\ client.state = "sent7" => Success(c)

C1_Witness ==
    \E c \in DOMAIN ws :
        /\ client.state = "sent7" /\ Success(c)
        /\ client.x > 1 /\ client.a > 1 /\ sess[c]._b > 1 /\ sess[c]._u > 1
        /\ sess[c]._K = client.K

(***************************************************************************)
(* Steps of the server, recognised by what they change.                    *)
(***************************************************************************)
\* the handler of connection c has handled a frame of this serial
HandledFrame(c, serial) ==
    /\ c \in DOMAIN nIn
    /\ nIn'[c][serial] = nIn[c][serial] + 1

\* a lookup callback of connection c has run
CallbackRan(c) ==
    /\ c \in DOMAIN pending
    /\ nIn'[c] = nIn[c]
    /\ pending'[c] # pending[c]

\* the frames of ws[c].sent with this serial
RECURSIVE Count(_, _)
Count(frames, serial) ==
    IF frames = <<>> THEN 0
    ELSE (IF Head(frames).serial = serial THEN 1 ELSE 0)
         + Count(Tail(frames), serial)

Fields(s) == <<s._s, s._v, s._b, s._B>>

\* C2: a phase-7 frame on an open connection closes it with a status that
\* is the success status exactly when the parsed clientProof equals the
\* expected proof, and the unauthorized status whenever they differ.
C2_ProofComparison ==
    [][\A c \in DOMAIN ws :
          (HandledFrame(c, 7) /\ log'.op = "case7"
              /\ ws[c].readyState = "OPEN")
          => /\ ws'[c].readyState = "CLOSING"
             /\ ws'[c].closeFrame.code = 1000
             /\ log'.args[2] = ServerProof(sess[c])
             /\ (log'.args[1] = ServerProof(sess[c])
                    => ws'[c].closeFrame.status = statusOk)
             /\ (log'.args[1] # ServerProof(sess[c])
                    => ws'[c].closeFrame.status = statusUnauthorized)]_vars

\* a proof one bit away from the expected one, refused, after a lookup
C2_Witness ==
    \E c \in DOMAIN ws :
        /\ log.op = "case7" /\ log.c = c
        /\ Xor(log.args[1], log.args[2]) \in {1, 2, 4}
        /\ ws[c].closeFrame = [code |-> 1000, status |-> statusUnauthorized]
        /\ sess[c]._v # 0

\* C3: a phase-2 frame whose clientPublic is a multiple of N closes the
\* connection without a response and without a lookup, and once the server
\* has closed a connection no frame is sent on it any more, whatever
\* arrives or completes afterwards.
C3_ZeroKeyAbort ==
    [][\A c \in DOMAIN ws :
          /\ (HandledFrame(c, 2) /\ log'.op = "case2" /\ log'.args[2] % N = 0)
             => /\ ws'[c].readyState # "OPEN"
                /\ ws'[c].sent = ws[c].sent
                /\ pending'[c] = pending[c]
          /\ ws[c].readyState # "OPEN" => ws'[c].sent = ws[c].sent]_vars

\* after the abort on A = 2N, with a lookup still in flight, a further
\* phase has been handled and the only frame ever sent is that of phase 1
C3_Witness ==
    \E c \in DOMAIN ws :
        /\ sess[c]._A = 2 * N
        /\ ws[c].closeFrame.code = 1005
        /\ ws[c].sent = <<Msg(1, <<>>)>>
        /\ log.op = "lookup"
        /\ nIn[c][2] = 2

\* C4: a lookup that completes without error for an identity with no row
\* sends the error notification and closes the connection, and the process
\* keeps running.
C4_UnknownIdentity ==
    [][\A c \in DOMAIN ws :
          (CallbackRan(c) /\ log'.op # "lookupError"
              /\ (\E I \in Identities :
                     pending'[c][I] < pending[c][I] /\ I \notin DOMAIN db)
              /\ ws[c].readyState = "OPEN")
          => /\ proc' = "running"
             /\ ws'[c].sent = Append(ws[c].sent, Msg(153, <<ErrorText>>))
             /\ ws'[c].readyState # "OPEN"]_vars

\* what every failed lookup leaves alone: the fields of the success branch,
\* and no phase-3 frame
ErrorLeavesFields(c) ==
    /\ Fields(sess'[c]) = Fields(sess[c])
    /\ Count(ws'[c].sent, 3) = Count(ws[c].sent, 3)

\* C5 as stated: every failed lookup sends one error notification, closes
\* the connection, sets none of salt, verifier, serverPrivate, serverPublic
\* and emits no phase-3 frame.
C5_StoreFailureAlways ==
    [][\A c \in DOMAIN ws :
          (CallbackRan(c) /\ log'.op = "lookupError")
          => /\ ws'[c].sent = Append(ws[c].sent, Msg(153, <<ErrorText>>))
             /\ ws'[c].readyState # "OPEN"
             /\ ErrorLeavesFields(c)]_vars

\* C5, amended: a failed lookup sets none of salt, verifier, serverPrivate,
\* serverPublic and emits no phase-3 frame; on a connection that is still
\* open it sends exactly one error notification and then closes the
\* connection; on a connection already closed it sends nothing.
C5_StoreFailure ==
    [][\A c \in DOMAIN ws :
          (CallbackRan(c) /\ log'.op = "lookupError")
          => /\ ErrorLeavesFields(c)
             /\ ws'[c].readyState # "OPEN"
             /\ IF ws[c].readyState = "OPEN"
                THEN /\ ws'[c].sent
                          = Append(ws[c].sent, Msg(153, <<ErrorText>>))
                     /\ ws'[c].readyState = "CLOSING"
                     /\ ws'[c].closeFrame.code = 1005
                ELSE ws'[c] = ws[c]]_vars

\* the error notification is the last frame of a connection that had got
\* its phase-3 response from an earlier lookup
C5_Witness ==
    \E c \in DOMAIN ws :
        /\ log.op = "lookupError" /\ log.c = c
        /\ ws[c].readyState = "CLOSING"
        /\ LastFrame(c) = Msg(153, <<ErrorText>>)
        /\ Count(ws[c].sent, 153) = 1
        /\ Count(ws[c].sent, 3) = 1

\* the session has advanced to phase 4: the frames sent are those of
\* phases 1, 3 and 4, in this order
AdvancedToPhase4(c) ==
    /\ Len(ws[c].sent) = 3
    /\ ws[c].sent[2].serial = 3
    /\ ws[c].sent[3].serial = 4

\* C9: a phase-2 frame with a valid clientPublic, handled on a session
\* that has advanced to phase 4, either changes no closure variable, or resets scramble and
\* sessionKeyHash to their initial values.
C9_ReplayRejectedOrReset ==
    [][\A c \in DOMAIN ws :
          (HandledFrame(c, 2) /\ log'.op = "case2"
              /\ log'.args[2] % N # 0
              /\ AdvancedToPhase4(c))
          => \/ sess'[c] = sess[c]
             \/ /\ sess'[c]._u = InitSession._u
                /\ sess'[c]._K = InitSession._K]_vars

\* the line each handler writes, by the serial of the frame it is for
HandlerLines(serial) ==
    CASE serial = 2 -> {"case2", "unhandledRejection"}
      [] serial = 3 -> {"case3"}
      [] serial = 5 -> {"case5"}
      [] serial = 7 -> {"case7", "unhandledRejection"}
      [] OTHER -> {"unexpected", "unhandledRejection"}

\* the response to a handled frame: appended to the frames sent, or,
\* with openOnly, dropped on a connection that is no longer open
Responds(c, frame, openOnly) ==
    IF openOnly /\ ws[c].readyState # "OPEN"
    THEN ws'[c].sent = ws[c].sent
    ELSE ws'[c].sent = Append(ws[c].sent, frame)

PendingTotal(c) == Sum(pending[c], Identities)

Pairing(c, openOnly) ==
    \* a frame is handled by the case of its serial alone
    /\ \A n \in Serials : HandledFrame(c, n) => log'.op \in HandlerLines(n)
    \* phases 3 and 5 are answered at once, by one frame
    /\ HandledFrame(c, 3) => Responds(c, Msg(4, <<>>), openOnly)
    /\ HandledFrame(c, 5) => Responds(c, Msg(6, <<>>), openOnly)
    \* phase 2, handled without abort or error, starts one lookup, and the
    \* lookup that finds the row answers it, by one frame
    /\ (HandledFrame(c, 2) /\ log'.op = "case2" /\ log'.args[2] % N # 0)
          => /\ \E I \in Identities :
                   pending'[c] = [pending[c] EXCEPT ![I] = @ + 1]
             /\ ws'[c].sent = ws[c].sent
    /\ (CallbackRan(c) /\ log'.op = "lookup")
          => \E s \in {r[2] : r \in Registrations} :
                Responds(c, Msg(3, <<s, ToHex(sess'[c]._B)>>), openOnly)
    \* a frame of phase 3, 4 or 6 is sent in such a step only
    /\ Count(ws'[c].sent, 3) # Count(ws[c].sent, 3)
          => CallbackRan(c) /\ log'.op = "lookup"
    /\ Count(ws'[c].sent, 4) # Count(ws[c].sent, 4) => HandledFrame(c, 3)
    /\ Count(ws'[c].sent, 6) # Count(ws[c].sent, 6) => HandledFrame(c, 5)
    \* so each is the response to a frame of its own
    /\ Count(ws'[c].sent, 3) + PendingTotal(c)' <= nIn'[c][2]
    /\ Count(ws'[c].sent, 4) <= nIn'[c][3]
    /\ Count(ws'[c].sent, 6) <= nIn'[c][5]

\* C10 as stated: every frame of phase 3, 4 or 6 sent is the response to
\* one handled frame of phase 2, 3 or 5, every such frame handled without
\* abort or error gets exactly one response (phase 2 when its lookup
\* completes), and a frame is handled by the case of its serial alone.
C10_PairingAlways == [][\A c \in DOMAIN ws : Pairing(c, FALSE)]_vars

\* C10, amended: the same, the response being sent when the connection is
\* still open at the time it is due; on a connection the server or the
\* peer has closed the frame is handled and no response is sent.
C10_Pairing == [][\A c \in DOMAIN ws : Pairing(c, TRUE)]_vars

\* phases 2, 3 and 5 handled once each, answered by 3, 4 and 6 in turn
C10_Witness ==
    \E c \in DOMAIN ws :
        /\ Len(ws[c].sent) = 4
        /\ ws[c].sent[2].serial = 3
        /\ ws[c].sent[3] = Msg(4, <<>>)
        /\ ws[c].sent[4] = Msg(6, <<>>)
        /\ nIn[c][2] = 1 /\ nIn[c][3] = 1 /\ nIn[c][5] = 1


\* C11: the connection handler sends exactly one phase-1 frame: it is the
\* first frame of the connection, sent in the step that creates the
\* session, before any inbound frame is handled, and no later step sends
\* a phase-1 frame again.
C11_Start ==
    [][/\ \A c \in DOMAIN ws' \ DOMAIN ws :
             /\ ws'[c].sent = <<Msg(1, <<>>)>>
             /\ \A n \in Serials : nIn'[c][n] = 0
             /\ sess'[c] = InitSession
       /\ \A c \in DOMAIN ws :
             /\ Head(ws[c].sent) = Msg(1, <<>>)
             /\ Count(ws'[c].sent, 1) = 1]_vars

\* the phase-1 frame is followed by the responses of a whole handshake
C11_Witness ==
    \E c \in DOMAIN ws :
        /\ Len(ws[c].sent) >= 4
        /\ Head(ws[c].sent) = Msg(1, <<>>)
        /\ Count(ws[c].sent, 1) = 1
        /\ Handled(c) = MaxInbound


\* C12: a connection is closed with the success status only after a
\* lookup of phase 2 has completed with its phase-3 response and phases 3
\* and 5 have then been handled and answered, in this order; a phase-7
\* frame that comes first never gets the success status.
C12_SuccessOnlyAfterHandshake ==
    \A c \in DOMAIN ws :
        Success(c)
        => \E i, j, l \in 1..Len(ws[c].sent) :
              /\ i < j /\ j < l
              /\ ws[c].sent[i].serial = 3
              /\ ws[c].sent[j].serial = 4
              /\ ws[c].sent[l].serial = 6


\* C13: no inbound frame of a connection is handled while a lookup of
\* that connection is in flight; in particular phase 3 is handled only
\* once the callback of the lookup has written serverPublic.
C13_NoFrameWhileLookupPending ==
    [][\A c \in DOMAIN ws :
          (\E n \in Serials : HandledFrame(c, n)) => PendingTotal(c) = 0]_vars


\* C14: with every frame handled on an open connection, a lookup callback
\* that runs on a connection that is no longer open (closed by the peer or
\* by the server while the lookup was in flight) has no side effect: it
\* writes no closure variable and sends no frame.
C14_LateLookupDiscarded ==
    [][\A c \in DOMAIN ws :
          (CallbackRan(c) /\ ws[c].readyState # "OPEN")
          => /\ sess'[c] = sess[c]
             /\ ws'[c] = ws[c]]_vars


\* a closure variable that holds a value other than its initial one keeps it
Keeps(c, f) == sess[c][f] # InitSession[f] => sess'[c][f] = sess[c][f]

\* C15: with every frame handled on an open connection, identity, once
\* set by phase 2, never changes, and serverPrivate, serverPublic,
\* scramble and sessionKeyHash, once set, are not written again with
\* another value; each changes only in the phase that defines it.
C15_WriteOnce ==
    [][\A c \in DOMAIN sess :
          /\ \A f \in {"_I", "_b", "_B", "_u", "_K"} : Keeps(c, f)
          /\ sess'[c]._I # sess[c]._I => HandledFrame(c, 2)
          /\ <<sess'[c]._b, sess'[c]._B>> # <<sess[c]._b, sess[c]._B>>
                => CallbackRan(c)
          /\ sess'[c]._u # sess[c]._u => HandledFrame(c, 3)
          /\ sess'[c]._K # sess[c]._K => HandledFrame(c, 5)]_vars


\* C16: with every frame handled on an open connection, a phase is handled
\* only when the fields it reads have been set: phase 3 after a lookup of
\* phase 2 has written serverPublic (and sent its phase-3 response),
\* phase 5 also after phase 3 has set scramble, phase 7 also after
\* phase 5 has set sessionKeyHash.
C16_NoReadBeforeWrite ==
    [][\A c \in DOMAIN ws :
          /\ HandledFrame(c, 3) => Count(ws[c].sent, 3) > 0
          /\ HandledFrame(c, 5)
                => Count(ws[c].sent, 3) > 0 /\ Count(ws[c].sent, 4) > 0
          /\ (HandledFrame(c, 7) /\ log'.op = "case7")
                => /\ Count(ws[c].sent, 3) > 0
                   /\ Count(ws[c].sent, 6) > 0]_vars


\* C17: a frame whose serial is none of 2, 3, 5, 7, with or without data,
\* is only logged: the handler writes its line for the unexpected frame,
\* raises no error, changes no closure variable, starts no lookup, sends
\* nothing and leaves the socket and the process as they are.
C17_UnrecognizedPhase ==
    [][\A c \in DOMAIN ws :
          (\E n \in Serials \ {2, 3, 5, 7} : HandledFrame(c, n))
          => /\ log'.op = "unexpected"
             /\ sess'[c] = sess[c]
             /\ ws'[c] = ws[c]
             /\ pending'[c] = pending[c]
             /\ proc' = proc]_vars


\* the server has closed connection c: ws.close() has been called on it
ServerClosed(c) == ws[c].closeFrame # NoClose

\* C18: once the server has closed a connection, a frame handled on it
\* changes no closure variable, starts no lookup, sends no frame and
\* leaves the close frame, with its verdict, as it is.
C18_TerminalClosure ==
    [][\A c \in DOMAIN ws :
          (ServerClosed(c) /\ \E n \in Serials : HandledFrame(c, n))
          => /\ sess'[c] = sess[c]
             /\ pending'[c] = pending[c]
             /\ ws'[c] = ws[c]]_vars


\* a step of session c: it is created, or its closure variables, socket,
\* lookups in flight or handled frames change
Touched(c) ==
    \/ c \notin DOMAIN sess
    \/ <<sess'[c], ws'[c], pending'[c], nIn'[c]>>
          # <<sess[c], ws[c], pending[c], nIn[c]>>

\* C19: with two connections interleaved in any order, every step of one
\* session leaves the closure variables of the other session unchanged,
\* and N, g and k have the values of process start, k = hash(N, g), in
\* every step.
C19_SessionIsolation ==
    [][/\ \A c \in DOMAIN sess', d \in DOMAIN sess :
             (c # d /\ Touched(c)) => sess'[d] = sess[d]
       /\ <<N, g, k>> = <<11, 2, hash(<<ToStr(11), ToStr(2)>>)>>]_vars

\* both sessions have got their own serverPublic from their own lookup,
\* for different clientPublic, and one has gone on to phase 3
C19_Witness ==
    /\ DOMAIN sess = Sessions
    /\ sess[1]._A # 0 /\ sess[2]._A # 0 /\ sess[1]._A # sess[2]._A
    /\ sess[1]._b # 0 /\ sess[2]._b # 0 /\ sess[1]._b # sess[2]._b
    /\ sess[1]._u # sess[2]._u


\* C20: a lookup that finds the row sets serverPrivate b to a value of
\* 0..N-1 and serverPublic to (k * verifier + g^b mod N) mod N, a value
\* of 0..N-1, verifier being the stored one; the phase-3 frame it sends
\* on an open connection carries the stored salt as stored, and that
\* serverPublic in hexadecimal.
C20_ServerPublic ==
    [][\A c \in DOMAIN ws :
          (CallbackRan(c) /\ log'.op = "lookup")
          => LET b == sess'[c]._b
                 B == sess'[c]._B
                 v == sess'[c]._v
             IN /\ b \in 0..(N - 1)
                /\ v = BigIntHex(db[Alice].v)
                /\ B = (k * v + RefPow(g, b, N)) % N
                /\ B \in 0..(N - 1)
                /\ ws[c].readyState = "OPEN"
                      => /\ Len(ws'[c].sent) = Len(ws[c].sent) + 1
                         /\ LastFrame(c)'.serial = 3
                         /\ LastFrame(c)'.data[1] = db[Alice].s
                         /\ BigIntHex(LastFrame(c)'.data[2]) = B]_vars

\* the response to a login with the largest b, a verifier above N and a
\* salt with a leading zero
C20_Witness ==
    \E c \in DOMAIN ws :
        /\ log.op = "lookup"
        /\ sess[c]._b = N - 1
        /\ sess[c]._v > N
        /\ sess[c]._B > 1
        /\ LastFrame(c) = Msg(3, <<SaltZero, ToHex(sess[c]._B)>>)

====
